---- MODULE Spec2Model ----
(***************************************************************************)
(* Symbol-waterfall: a terminal "digital rain".  The model follows         *)
(* src/src/lib.rs (Rune, Characters, Grid, Waterfall::step and            *)
(* Waterfall::render) and src/src/main.rs (the driver loop).              *)
(*                                                                         *)
(* Coordinates are 0-based as in the source: a generator is <<x, y>>       *)
(* (column, row) and cell (x, y) of the grid is grid[y + 1][x + 1].        *)
(* Glyphs are Unicode code points.  Every random draw of the source        *)
(* (rand::thread_rng) is an input of the action that makes it.             *)
(***************************************************************************)
EXTENDS Integers, Sequences, FiniteSets, TLC

(*************************** program constants *****************************)

\* lib.rs:17 -- the glyph catalogue, as code points, in source order
SYMBOLS ==
  << 65418, 65424, 65419, 65392, 65395, 65404, 65413, 65427, 65414, 65403,
     65436, 65410, 65397, 65432, 65393, 65422, 65411, 65423, 65401, 65426,
     65396, 65398, 65399, 65425, 65429, 65431, 65406, 65416, 65405, 65408,
     65415, 65421, 65382, 65394, 65400, 65402, 65407, 65409, 65412, 65417,
     65420, 65428, 65430, 65433, 65434, 65435, 65437, 48, 49, 50, 51, 52, 53,
     55, 56, 57, 90, 58, 46, 34, 61, 42, 43, 45, 60, 62, 166, 9548, 231 >>

\* lib.rs:19 -- range of the lifetime draw, before the fade offset
RUNE_LIFETIME == <<4, 20>>

\* lib.rs:21
RUNE_FADE_DURATION == 7

\* lib.rs:23
GENERATOR_IN_COLUMN == <<1, 90>>

\* lib.rs:24
RUNE_COLOR_BASE == <<0, 255, 255>>

\* lib.rs:25
RUNE_GENERATOR_COLOR == <<255, 0, 0>>

\* lib.rs:75 and lib.rs:190 -- the ' ' character
BLANK == 32

\* u8 arithmetic wraps at 2^8
U8 == 256

(******************************* bounds ************************************)

\* largest number of cells (width * height) of the terminal at construction
MaxCells == 4

\* number of step calls explored
MaxTicks == 13

\* the terminal sizes explored: every width >= 1 and height >= 1 within MaxCells
TermSizes ==
  {s \in (1..MaxCells) \X (1..MaxCells) : s[1] * s[2] <= MaxCells}

\* number of successful spawn trials explored in one run
MaxSpawns == MaxCells \div 2

\* the whole range of rng.gen_range(RUNE_LIFETIME.0..RUNE_LIFETIME.1)
LifetimeRange == RUNE_LIFETIME[1] .. (RUNE_LIFETIME[2] - 1)

\* lifetime draws explored for the fill rune of Grid::new: the two ends
InitLifetimeDraws == {RUNE_LIFETIME[1], RUNE_LIFETIME[2] - 1}

\* draws <<idx, lifetime draw>> explored for the runes written by step:
\* first symbol with the shortest lifetime, last symbol with the longest
RuneDraws ==
  { <<0, RUNE_LIFETIME[1]>>, <<Len(SYMBOLS) - 1, RUNE_LIFETIME[2] - 1>> }

\* draws <<idx, lifetime draw>> explored by SpecFreshRunes: every symbol with
\* the shortest lifetime and the first symbol with every lifetime
AllRuneDraws ==
  {<<i, RUNE_LIFETIME[1]>> : i \in 0..(Len(SYMBOLS) - 1)}
    \cup {<<0, d>> : d \in LifetimeRange}

\* number of step calls explored by SpecFreshRunes
FreshTicks == 2

\* values of rng.gen_range(0..GENERATOR_IN_COLUMN.1) explored: both sides of
\* the comparison with GENERATOR_IN_COLUMN.0
SpawnDraws == {GENERATOR_IN_COLUMN[1], GENERATOR_IN_COLUMN[1] + 1}

VARIABLES
  grid,        \* Waterfall.grid: Vec<Vec<Rune>>, grid[y + 1][x + 1]
  generators,  \* Waterfall.generators: Vec<(usize, usize)>
  screen,      \* what the last render painted, per cell; << >> before any
  pc,          \* main: "step", "render", then "failed" (an Err left main)
               \* or "panicked" (an expect() or an index failed)
  termSize,    \* what terminal::size() returned to Grid::new
  ticks,       \* number of step calls made so far
  spawns,      \* number of generators pushed so far
  before,      \* history: grid and generators at the entry of the last step
  last,        \* history: the spawn draws of the last step and the cells
               \* it wrote a fresh rune to
  trail,       \* history, one record per generator of the list: the column
               \* and tick of its spawn and the value of spawns after that
               \* step
  origin,      \* history, per cell <<x, y>>: the lifetime create_rune gave
               \* the rune last written there and the number of steps that
               \* had returned before it was written
  calls        \* history: the number of render calls made so far and how
               \* the last call of the loop ended

vars ==
  <<grid, generators, screen, pc, termSize, ticks, spawns, before, last, trail,
    origin, calls>>

(******************************* helpers ***********************************)

Range(s) == {s[i] : i \in 1..Len(s)}

Max(a, b) == IF a >= b THEN a ELSE b

\* lib.rs:28-32
Rune(character, lifetime, color) ==
  [character |-> character, lifetime |-> lifetime, color |-> color]

\* create_rune without the fade offset
create_rune_NoFadeOffset(character, color, draw) ==
  Rune(character, draw % U8, color)

\* create_rune with the fade duration added twice
create_rune_FadeTwice(character, color, draw) ==
  Rune(character, (draw + RUNE_FADE_DURATION + RUNE_FADE_DURATION) % U8, color)

\* lib.rs:45-54 -- draw is the value of rng.gen_range(RUNE_LIFETIME.0..RUNE_LIFETIME.1)
create_rune(character, color, draw) ==
  Rune(character, (draw + RUNE_FADE_DURATION) % U8, color)

\* lib.rs:36-43 -- idx is the value of rng.gen_range(0..chars.len())
create_random_rune(color, idx, draw) ==
  create_rune(SYMBOLS[idx + 1], color, draw)

\* lib.rs:104, 121
base_color == RUNE_COLOR_BASE

\* lib.rs:73-77 -- vec![vec![rune; width]; height]
GridNew(width, height, draw) ==
  [y \in 1..height |-> [x \in 1..width |-> create_rune(BLANK, RUNE_COLOR_BASE, draw)]]

\* lib.rs:79-96 -- the two get_mut(..).expect(..) of set_rune and get_rune succeed
InBounds(g, x, y) == y < Len(g) /\ x < Len(g[y + 1])

\* set_rune that inserts the rune (Vec::insert) instead of overwriting
set_rune_Insert(g, x, y, rune) ==
  [g EXCEPT ![y + 1] = SubSeq(@, 1, x) \o <<rune>> \o SubSeq(@, x + 1, Len(@))]

\* lib.rs:79-87
set_rune(g, x, y, rune) == [g EXCEPT ![y + 1][x + 1] = rune]

\* lib.rs:89-96
get_rune(g, x, y) == g[y + 1][x + 1]

(***************************** Waterfall::step *****************************)

\* step without its first loop: no cell gets the base color back
DimGenerators_Skipped(g, gens) == g

\* lib.rs:163-166 -- every generator's cell gets the base color back
DimGenerators(g, gens) ==
  [y \in 1..Len(g) |->
     [x \in 1..Len(g[y]) |->
        IF <<x - 1, y - 1>> \in Range(gens)
        THEN [get_rune(g, x - 1, y - 1) EXCEPT !.color = base_color]
        ELSE g[y][x]]]

\* retain that keeps the generators at the last row (>= for >)
RetainGenerators_OneRowLate(g, gens) ==
  SelectSeq(gens, LAMBDA p : Len(g) >= p[2] + 1)

\* retain that also drops the generators one row above the last
RetainGenerators_OneRowEarly(g, gens) ==
  SelectSeq(gens, LAMBDA p : Len(g) > p[2] + 2)

\* lib.rs:168-169 -- retain(|g| self.grid.len() > g.1 + 1)
RetainGenerators(g, gens) ==
  SelectSeq(gens, LAMBDA p : Len(g) > p[2] + 1)

\* a generator that steps sideways as it falls
AdvanceGenerator_Drift(p) == <<(p[1] + 1) % 2, p[2] + 1>>

\* a generator that writes its rune without falling
AdvanceGenerator_Stay(p) == p

\* lib.rs:174 -- g.1 += 1
AdvanceGenerator(p) == <<p[1], p[2] + 1>>

\* lib.rs:173-174 -- the retained generators, each one row further down
AdvanceGenerators(gens) ==
  [i \in 1..Len(gens) |-> AdvanceGenerator(gens[i])]

\* lib.rs:175-176 and 181-182 -- one fresh random rune per position, written
\* in list order; runes[i] = <<idx, draw>> are the two draws of the i-th rune
RECURSIVE WriteRunes(_, _, _, _)
WriteRunes(g, positions, runes, i) ==
  IF i > Len(positions) THEN g
  ELSE WriteRunes(
         set_rune(g, positions[i][1], positions[i][2],
                  create_random_rune(base_color, runes[i][1], runes[i][2])),
         positions, runes, i + 1)

\* lib.rs:179 -- rng.gen_range(0..GENERATOR_IN_COLUMN.1) <= GENERATOR_IN_COLUMN.0
SpawnTrial(d) == d <= GENERATOR_IN_COLUMN[1]

\* a spawn loop that starts at column 1
RECURSIVE SpawnedFrom_SkipFirstColumn(_, _, _)
SpawnedFrom_SkipFirstColumn(sd, width, i) ==
  IF i >= width THEN << >>
  ELSE (IF i > 0 /\ sd[i + 1] <= GENERATOR_IN_COLUMN[1]
        THEN << <<i, 0>> >> ELSE << >>)
       \o SpawnedFrom_SkipFirstColumn(sd, width, i + 1)

\* lib.rs:178-180 -- the generators pushed by the spawn loop, in column order;
\* sd[i + 1] is the draw of column i
RECURSIVE SpawnedFrom(_, _, _)
SpawnedFrom(sd, width, i) ==
  IF i >= width THEN << >>
  ELSE (IF SpawnTrial(sd[i + 1]) THEN << <<i, 0>> >> ELSE << >>)
       \o SpawnedFrom(sd, width, i + 1)

\* the aging loop without the test for lifetime 0: the u8 wraps
AgeRune_NoZeroTest(r) ==
  IF RUNE_LIFETIME[2] + RUNE_FADE_DURATION > r.lifetime
  THEN [r EXCEPT !.lifetime = (r.lifetime - 1) % U8]
  ELSE r

\* the aging loop blanking the glyph as soon as the rune starts to fade
AgeRune_BlankWhileFading(r) ==
  IF RUNE_LIFETIME[2] + RUNE_FADE_DURATION > r.lifetime
  THEN IF r.lifetime = 0
       THEN [r EXCEPT !.character = BLANK]
       ELSE [r EXCEPT !.lifetime = (r.lifetime - 1) % U8,
                      !.character = IF r.lifetime - 1 < RUNE_FADE_DURATION
                                    THEN BLANK ELSE @]
  ELSE r

\* the aging loop without the blanking of the glyph at lifetime 0
AgeRune_KeepGlyph(r) ==
  IF RUNE_LIFETIME[2] + RUNE_FADE_DURATION > r.lifetime
  THEN IF r.lifetime = 0
       THEN r
       ELSE [r EXCEPT !.lifetime = (r.lifetime - 1) % U8]
  ELSE r

\* lib.rs:188-195 -- one cell of the aging loop
AgeRune(r) ==
  IF RUNE_LIFETIME[2] + RUNE_FADE_DURATION > r.lifetime
  THEN IF r.lifetime = 0
       THEN [r EXCEPT !.character = BLANK]
       ELSE [r EXCEPT !.lifetime = (r.lifetime - 1) % U8]
  ELSE r

\* lib.rs:186-197
AgeGrid(g) ==
  [y \in 1..Len(g) |-> [x \in 1..Len(g[y]) |-> AgeRune(g[y][x])]]

\* lib.rs:199-202
HighlightGenerators(g, gens) ==
  [y \in 1..Len(g) |->
     [x \in 1..Len(g[y]) |->
        IF <<x - 1, y - 1>> \in Range(gens)
        THEN [get_rune(g, x - 1, y - 1) EXCEPT !.color = RUNE_GENERATOR_COLOR]
        ELSE g[y][x]]]

\* lib.rs:164, 176, 178, 182, 200 -- some access of step is out of bounds:
\* a get_rune / set_rune expect() fails, or self.grid[0] has no row 0
StepPanics(g, gens) ==
  \/ \E i \in 1..Len(gens) : ~InBounds(g, gens[i][1], gens[i][2])
  \/ LET moved == AdvanceGenerators(RetainGenerators(g, gens))
     IN  \E i \in 1..Len(moved) : ~InBounds(g, moved[i][1], moved[i][2])
  \/ Len(g) = 0

\* lib.rs:178 -- self.grid[0].len()
FirstRowLen(g) == Len(g[1])

\* lib.rs:162-204 -- the state step leaves when nothing panics.  advRunes
\* are the draws of the advance loop, sd of the spawn trials, spRunes of the
\* runes of the spawn loop; written are the positions given to set_rune.
StepResult(g, gens, advRunes, sd, spRunes) ==
  LET g1      == DimGenerators(g, gens)
      moved   == AdvanceGenerators(RetainGenerators(g1, gens))
      g2      == WriteRunes(g1, moved, advRunes, 1)
      spawned == SpawnedFrom(sd, FirstRowLen(g2), 0)
      g3      == WriteRunes(g2, spawned, spRunes, 1)
      gens3   == moved \o spawned
      g4      == AgeGrid(g3)
  IN  [grid |-> HighlightGenerators(g4, gens3),
       generators |-> gens3,
       written |-> Range(moved) \cup Range(spawned)]

\* the indices of the generators that lib.rs:168-169 retains, in list order
RetainedIndices(g, gens) ==
  SelectSeq([i \in 1..Len(gens) |-> i],
            LAMBDA i : RetainGenerators(g, <<gens[i]>>) # << >>)

\* the trail after a step: the retained generators' records, then one
\* record per spawned generator
TrailAfter(g, gens, sd) ==
  LET kept    == RetainedIndices(g, gens)
      spawned == SpawnedFrom(sd, FirstRowLen(g), 0)
  IN  [i \in 1..Len(kept) |-> trail[kept[i]]]
      \o
      [j \in 1..Len(spawned) |->
         [column |-> spawned[j][1], tick |-> ticks + 1,
          spawns |-> spawns + Len(spawned)]]

\* origin after the runes[i] have been written at positions[i], in order
RECURSIVE OriginAfter(_, _, _, _)
OriginAfter(o, positions, runes, i) ==
  IF i > Len(positions) THEN o
  ELSE OriginAfter(
         [o EXCEPT ![positions[i]] =
            [lifetime |-> create_random_rune(base_color, runes[i][1],
                                             runes[i][2]).lifetime,
             since |-> ticks]],
         positions, runes, i + 1)

\* main.rs:10 with lib.rs:162-204 -- one call of step, its rune draws taken
\* from runeDraws and its spawn draws from spawnDraws, within maxTicks calls
\* and maxSpawns successful trials
StepDraws(runeDraws, spawnDraws, maxTicks, maxSpawns) ==
  /\ pc = "step"
  /\ ticks < maxTicks
  /\ IF StepPanics(grid, generators)
     THEN /\ pc' = "panicked"
          /\ calls' = [calls EXCEPT !.outcome = "step panicked"]
          /\ UNCHANGED <<grid, generators, spawns, last, trail, origin>>
     ELSE \E sd \in [1..FirstRowLen(grid) -> spawnDraws] :
          \E advRunes \in [1..Len(RetainGenerators(grid, generators)) -> runeDraws] :
          \E spRunes \in [1..Len(SpawnedFrom(sd, FirstRowLen(grid), 0)) -> runeDraws] :
            LET r == StepResult(grid, generators, advRunes, sd, spRunes)
            IN  /\ spawns + Len(spRunes) <= maxSpawns
                /\ spawns' = spawns + Len(spRunes)
                /\ grid' = r.grid
                /\ generators' = r.generators
                /\ pc' = "render"
                /\ calls' = [calls EXCEPT !.outcome = "step ok"]
                /\ last' = [sd |-> sd, written |-> r.written]
                /\ trail' = TrailAfter(grid, generators, sd)
                /\ origin' =
                     OriginAfter(
                       OriginAfter(origin,
                         AdvanceGenerators(RetainGenerators(grid, generators)),
                         advRunes, 1),
                       SpawnedFrom(sd, FirstRowLen(grid), 0), spRunes, 1)
  /\ ticks' = ticks + 1
  /\ before' = [grid |-> grid, generators |-> generators]
  /\ UNCHANGED <<screen, termSize>>

\* main.rs:10 with lib.rs:162-204 -- one call of step with the spawn draws
\* of SpawnDraws
StepWith(runeDraws, maxTicks, maxSpawns) ==
  StepDraws(runeDraws, SpawnDraws, maxTicks, maxSpawns)

\* main.rs:10
Step == StepWith(RuneDraws, MaxTicks, MaxSpawns)

(**************************** Waterfall::render ****************************)

\* the interpolation with the product taken before the quotient
FadeOps_ProductFirst(c, v) ==
  << RUNE_FADE_DURATION - v,
     c * (RUNE_FADE_DURATION - v),
     (c * (RUNE_FADE_DURATION - v)) \div RUNE_FADE_DURATION >>

\* the interpolation taken from the wrong end: the amount grows with v
FadeOps_Reversed(c, v) ==
  << c \div RUNE_FADE_DURATION,
     v,
     (c \div RUNE_FADE_DURATION) * v >>

\* lib.rs:133 -- the results of the three 8-bit operations of
\* (channel / RUNE_FADE_DURATION) * (RUNE_FADE_DURATION - v), in the order
\* quotient, difference, product, as the integers they are meant to produce
FadeOps(c, v) ==
  << c \div RUNE_FADE_DURATION,
     RUNE_FADE_DURATION - v,
     (c \div RUNE_FADE_DURATION) * (RUNE_FADE_DURATION - v) >>

\* lib.rs:133 -- the u8 handed to saturating_sub
FadeAmount(c, v) == FadeOps(c, v)[3] % U8

\* u8::saturating_sub
saturating_sub(a, b) == IF a >= b THEN a - b ELSE 0

\* render with the full-brightness arm starting at the shortest lifetime of
\* create_rune instead of the fade duration; the u8 difference wraps
RenderChannel_LateThreshold(c, v) ==
  IF v >= RUNE_LIFETIME[1] + RUNE_FADE_DURATION THEN c
  ELSE IF v = 0 THEN 0
  ELSE saturating_sub(c, ((c \div RUNE_FADE_DURATION)
                            * ((RUNE_FADE_DURATION - v) % U8)) % U8)

\* lib.rs:128-142 -- one channel of new_color
RenderChannel(c, v) ==
  IF v >= RUNE_FADE_DURATION THEN c
  ELSE IF v = 0 THEN 0
  ELSE saturating_sub(c, FadeAmount(c, v))

\* lib.rs:131-141 -- an 8-bit operation of the fading arm leaves 0..255
RenderOverflows(c, v) ==
  /\ ~(v >= RUNE_FADE_DURATION)
  /\ v # 0
  /\ \E k \in 1..Len(FadeOps(c, v)) : FadeOps(c, v)[k] \notin 0..(U8 - 1)

\* lib.rs:128-155 -- what is painted at one cell
RenderRune(r) ==
  [character |-> r.character,
   fg |-> [k \in 1..3 |-> RenderChannel(r.color[k], r.lifetime)]]

\* lib.rs:126-157
RenderGrid(g) ==
  [y \in 1..Len(g) |-> [x \in 1..Len(g[y]) |-> RenderRune(g[y][x])]]

\* render with its Err dropped instead of returned to main
Render_ErrIgnored ==
  /\ pc = "render"
  /\ \E ioOk \in BOOLEAN :
       IF ioOk
       THEN /\ screen' = RenderGrid(grid)
            /\ pc' = "step"
            /\ calls' = [renders |-> calls.renders + 1, outcome |-> "render ok"]
       ELSE /\ pc' = "step"
            /\ calls' = [renders |-> calls.renders + 1, outcome |-> "render err"]
            /\ UNCHANGED screen
  /\ UNCHANGED <<grid, generators, termSize, ticks, spawns, before, last, trail,
                 origin>>

\* main.rs:11 with lib.rs:125-160 -- ioOk: every queue and the flush succeed;
\* otherwise the Err leaves render and main by the two ? operators
Render ==
  /\ pc = "render"
  /\ \E ioOk \in BOOLEAN :
       IF ioOk
       THEN /\ screen' = RenderGrid(grid)
            /\ pc' = "step"
            /\ calls' = [renders |-> calls.renders + 1, outcome |-> "render ok"]
       ELSE /\ pc' = "failed"
            /\ calls' = [renders |-> calls.renders + 1, outcome |-> "render err"]
            /\ UNCHANGED screen
  /\ UNCHANGED <<grid, generators, termSize, ticks, spawns, before, last, trail,
                 origin>>

(****************************** specification ******************************)

\* main.rs:7 with lib.rs:108-123 -- Waterfall::new on a terminal of w columns
\* and h rows, the lifetime draw of the fill rune taken from draws
InitSize(w, h, draws) ==
  /\ termSize = <<w, h>>
  /\ \E draw \in draws :
       /\ grid = GridNew(w, h, draw)
       /\ origin = [c \in (0..(w - 1)) \X (0..(h - 1)) |->
                     [lifetime |-> create_rune(BLANK, RUNE_COLOR_BASE, draw).lifetime,
                      since |-> 0]]
  /\ generators = << >>
  /\ screen = << >>
  /\ pc = "step"
  /\ ticks = 0
  /\ spawns = 0
  /\ before = [grid |-> grid, generators |-> generators]
  /\ last = [sd |-> << >>, written |-> {}]
  /\ trail = << >>
  /\ calls = [renders |-> 0, outcome |-> "none"]

Init == \E s \in TermSizes : InitSize(s[1], s[2], InitLifetimeDraws)

\* main.rs:9-14
Next == Step \/ Render

Spec == Init /\ [][Next]_vars

\* The first calls of step on a terminal of one column and two rows, with
\* every lifetime draw of create_rune and every symbol of the catalogue: one
\* generator spawns, advances and is pruned.
InitFreshRunes == InitSize(1, 2, LifetimeRange)

StepFreshRunes == StepWith(AllRuneDraws, FreshTicks, 1)

NextFreshRunes == StepFreshRunes \/ Render

SpecFreshRunes == InitFreshRunes /\ [][NextFreshRunes]_vars

(******************************** claims ***********************************)

\* the cells <<x, y>> of the terminal reported at construction
Cells == (0..(termSize[1] - 1)) \X (0..(termSize[2] - 1))

\* the rune of grid g at cell c = <<x, y>>
CellAt(g, c) == g[c[2] + 1][c[1] + 1]

\* at least one step has run to its end
Stepped == ticks > 0 /\ pc # "panicked"

\* C1 -- a cell whose lifetime went from 1 to 0 in the last step holds the
\* blank glyph when that step has returned.  (The source blanks a cell only
\* in a step that finds its lifetime already 0: lib.rs:189-191.)
C1_BlankedInSameStep ==
  Stepped =>
    \A c \in Cells :
      (CellAt(before.grid, c).lifetime = 1 /\ CellAt(grid, c).lifetime = 0)
        => CellAt(grid, c).character = BLANK

\* C2 -- after a step, every cell that step wrote no fresh rune to has
\* lifetime max(lifetime before - 1, 0): one less when positive, still 0
\* when 0, never wrapped below 0.
C2_LifetimeDecrement ==
  Stepped =>
    \A c \in Cells \ last.written :
      CellAt(grid, c).lifetime = Max(CellAt(before.grid, c).lifetime - 1, 0)

\* C2 witness: after a step, one cell not written stayed at 0 and another
\* went from a positive lifetime to one less
C2_Witness ==
  /\ Stepped
  /\ \E c, d \in Cells \ last.written :
       /\ CellAt(before.grid, c).lifetime = 0
       /\ CellAt(grid, c).lifetime = 0
       /\ CellAt(before.grid, d).lifetime > 0
       /\ CellAt(grid, d).lifetime = CellAt(before.grid, d).lifetime - 1

\* the generators of the list gens that are at the last row of the terminal
AtLastRow(gens) == SelectSeq(gens, LAMBDA p : p[2] = termSize[2] - 1)

\* the generators of the list gens whose next row is inside the terminal
AboveLastRow(gens) == SelectSeq(gens, LAMBDA p : p[2] + 1 < termSize[2])

\* the number of spawn trials of the last step that pushed a generator
SpawnedInLastStep ==
  Cardinality({i \in 1..Len(last.sd) : last.sd[i] <= GENERATOR_IN_COLUMN[1]})

\* C3 -- after a step the list holds, in order, exactly the generators that
\* had row + 1 < height before it, each one row down, followed by the
\* generators spawned in that step at row 0: a generator that was at row
\* height - 1 is gone.  The cell it occupied still holds a rune: the same
\* glyph as before the step unless a fresh rune was written there.
C3_PruneAtLastRow ==
  Stepped =>
    LET kept == AboveLastRow(before.generators)
    IN  /\ Len(generators) = Len(kept) + SpawnedInLastStep
        /\ \A i \in 1..Len(kept) :
             generators[i] = <<kept[i][1], kept[i][2] + 1>>
        /\ \A i \in (Len(kept) + 1)..Len(generators) : generators[i][2] = 0
        /\ \A p \in Range(AtLastRow(before.generators)) :
             /\ CellAt(grid, p).character # BLANK
             /\ p \notin last.written =>
                  /\ CellAt(grid, p).character = CellAt(before.grid, p).character
                  /\ CellAt(grid, p).lifetime = CellAt(before.grid, p).lifetime - 1

\* C3 witness: the last step pruned one generator at the last row, whose
\* cell no generator holds now, and advanced another one
C3_Witness ==
  /\ Stepped
  /\ \E p \in Range(AtLastRow(before.generators)) :
       p \notin Range(generators) /\ p \notin last.written
  /\ AboveLastRow(before.generators) # << >>

\* C4 -- every rune of create_rune has lifetime in
\* [RUNE_LIFETIME.0 + fade, RUNE_LIFETIME.1 + fade): the fill rune of
\* Grid::new before any step, and the runes a step wrote, which that step
\* has aged once; these have lifetime >= RUNE_FADE_DURATION and a glyph
\* other than blank when the step has returned.
C4_FreshRuneLifetime ==
  /\ ticks = 0 =>
       \A c \in Cells :
         /\ CellAt(grid, c).lifetime >= RUNE_LIFETIME[1] + RUNE_FADE_DURATION
         /\ CellAt(grid, c).lifetime < RUNE_LIFETIME[2] + RUNE_FADE_DURATION
  /\ Stepped =>
       \A c \in last.written :
         /\ CellAt(grid, c).lifetime + 1 >= RUNE_LIFETIME[1] + RUNE_FADE_DURATION
         /\ CellAt(grid, c).lifetime + 1 < RUNE_LIFETIME[2] + RUNE_FADE_DURATION
         /\ CellAt(grid, c).lifetime >= RUNE_FADE_DURATION
         /\ CellAt(grid, c).character # BLANK

\* C4 witness: the last step wrote, by an advance, the last symbol of the
\* catalogue with the shortest lifetime, below a rune that the step before
\* wrote by a spawn with the longest lifetime
C4_Witness ==
  /\ Stepped
  /\ \E c \in last.written :
       /\ c[2] > 0
       /\ CellAt(grid, c).character = SYMBOLS[Len(SYMBOLS)]
       /\ CellAt(grid, c).lifetime + 1 = RUNE_LIFETIME[1] + RUNE_FADE_DURATION
       /\ origin[<<c[1], 0>>].since = ticks - 2
       /\ CellAt(grid, <<c[1], 0>>).lifetime + 3 = RUNE_LIFETIME[2] + RUNE_FADE_DURATION

\* Waterfall::render on one cell of every stored channel value and lifetime
\* a u8 can hold
InitRenderInputs ==
  /\ termSize = <<1, 1>>
  /\ \E c \in 0..(U8 - 1), v \in 0..(U8 - 1) :
       grid = << << Rune(SYMBOLS[1], v, <<c, (U8 - 1) - c, c>>) >> >>
  /\ generators = << >>
  /\ screen = << >>
  /\ pc = "render"
  /\ ticks = 0
  /\ spawns = 0
  /\ before = [grid |-> grid, generators |-> generators]
  /\ last = [sd |-> << >>, written |-> {}]
  /\ trail = << >>
  /\ origin = [c \in {<<0, 0>>} |-> [lifetime |-> grid[1][1].lifetime, since |-> 0]]
  /\ calls = [renders |-> 0, outcome |-> "none"]

NextRenderInputs == Render

SpecRenderInputs == InitRenderInputs /\ [][NextRenderInputs]_vars

\* C5 -- for every stored channel and lifetime in 0..255 none of the 8-bit
\* operations of the fading arm leaves 0..255 (the arm is taken only for
\* 0 < lifetime < RUNE_FADE_DURATION), and the channel render paints lies
\* between 0 and the stored channel.
C5_DisplayChannelBounds ==
  \A c \in Cells : \A k \in 1..3 :
    /\ ~RenderOverflows(CellAt(grid, c).color[k], CellAt(grid, c).lifetime)
    /\ (pc = "step" /\ screen # << >>) =>
         /\ CellAt(screen, c).fg[k] >= 0
         /\ CellAt(screen, c).fg[k] <= CellAt(grid, c).color[k]

\* C5 witness: render painted a fading cell of the largest stored channel
\* darker than stored and not black
C5_Witness ==
  /\ pc = "step"
  /\ screen # << >>
  /\ \E c \in Cells : \E k \in 1..3 :
       /\ CellAt(grid, c).color[k] = U8 - 1
       /\ CellAt(grid, c).lifetime = 1
       /\ CellAt(screen, c).fg[k] > 0
       /\ CellAt(screen, c).fg[k] < U8 - 1

\* C6 -- a cell's stored color is the generator color exactly when some
\* generator of the list is at that cell, and the base color otherwise; so
\* after a step the cell a generator left or was pruned from has the base
\* color.
C6_HeadColor ==
  pc # "panicked" =>
    \A c \in Cells :
      /\ c \in Range(generators) => CellAt(grid, c).color = RUNE_GENERATOR_COLOR
      /\ c \notin Range(generators) => CellAt(grid, c).color = RUNE_COLOR_BASE

\* C6 witness: the last step pruned a generator from one cell and advanced a
\* generator out of another; neither cell holds a generator now and a third
\* cell does
C6_Witness ==
  /\ Stepped
  /\ \E p \in Range(AtLastRow(before.generators)) : p \notin Range(generators)
  /\ \E p \in Range(AboveLastRow(before.generators)) : p \notin Range(generators)
  /\ generators # << >>

\* C7 -- every generator of the list is inside the terminal (column < width,
\* row < height), and no access of step has failed its bounds check.
C7_GeneratorsInBounds ==
  /\ pc # "panicked"
  /\ \A i \in 1..Len(generators) :
       /\ generators[i][1] >= 0
       /\ generators[i][1] < termSize[1]
       /\ generators[i][2] >= 0
       /\ generators[i][2] < termSize[2]

\* C7 witness: a step has returned that found a generator at the last row of
\* a terminal of two or more rows, and a generator is at the last column
C7_Witness ==
  /\ Stepped
  /\ termSize[2] > 1
  /\ AtLastRow(before.generators) # << >>
  /\ \E i \in 1..Len(generators) : generators[i][1] = termSize[1] - 1

\* C8 -- the grid has as many rows as the terminal had at construction and
\* every row has as many cells as the terminal had columns.
C8_DimensionsFixed ==
  /\ Len(grid) = termSize[2]
  /\ \A y \in 1..Len(grid) : Len(grid[y]) = termSize[1]

\* C8 witness: steps that advanced and spawned generators and a render have
\* run on a terminal of two columns and two rows
C8_Witness ==
  /\ termSize = <<2, 2>>
  /\ ticks >= 2
  /\ screen # << >>
  /\ \E c, d \in last.written : c[2] = 0 /\ d[2] = 1

\* C9 -- when a step that found no generators has had every column's spawn
\* trial succeed, the list holds exactly width generators, the i-th at
\* <<i, 0>>, and every cell of row 0 holds a glyph other than blank with
\* lifetime >= RUNE_FADE_DURATION.
C9_SpawnEveryColumn ==
  ( /\ Stepped
    /\ before.generators = << >>
    /\ \A i \in 1..termSize[1] : last.sd[i] <= GENERATOR_IN_COLUMN[1] )
  =>
    /\ Len(generators) = termSize[1]
    /\ \A i \in 0..(termSize[1] - 1) :
         /\ generators[i + 1] = <<i, 0>>
         /\ CellAt(grid, <<i, 0>>).character # BLANK
         /\ CellAt(grid, <<i, 0>>).lifetime >= RUNE_FADE_DURATION

\* C9 witness: such a step has returned on a terminal of two columns
C9_Witness ==
  /\ Stepped
  /\ termSize[1] = 2
  /\ before.generators = << >>
  /\ \A i \in 1..termSize[1] : last.sd[i] <= GENERATOR_IN_COLUMN[1]
  /\ Len(generators) = 2

\* C10 -- a generator of the list since whose spawning step no trial has
\* succeeded is at its spawn column, at the row that counts the steps since
\* (k steps take <<c, r>> to <<c, r + k>>, within the terminal); and every
\* cell holds the lifetime create_rune gave its last rune minus the number
\* of steps that have returned since it was written, the writing step
\* included, floored at 0.
C10_FallAndAge ==
  Stepped =>
    /\ Len(trail) = Len(generators)
    /\ \A i \in 1..Len(generators) :
         trail[i].spawns = spawns =>
           /\ generators[i] = <<trail[i].column, ticks - trail[i].tick>>
           /\ ticks - trail[i].tick <= termSize[2] - 1
    /\ \A c \in Cells :
         CellAt(grid, c).lifetime =
           Max(origin[c].lifetime - (ticks - origin[c].since), 0)

\* C10 witness: with no spawn since its own, a generator has fallen from
\* row 0 to a lower row, and a rune written by a step has aged down to 0
C10_Witness ==
  /\ Stepped
  /\ \E i \in 1..Len(generators) :
       /\ trail[i].spawns = spawns
       /\ trail[i].tick < ticks
       /\ generators[i] = <<trail[i].column, ticks - trail[i].tick>>
  /\ \E c \in Cells :
       /\ origin[c].since > 0
       /\ origin[c].lifetime > 0
       /\ CellAt(grid, c).lifetime = 0

\* the brightness of a painted color: the sum of its channels
Brightness(fg) == fg[1] + fg[2] + fg[3]

\* render has just painted the grid as it is now
Rendered == pc = "step" /\ screen # << >>

\* the rows above generator i of the list whose cell still holds the rune
\* that generator wrote, with a lifetime at or above the fade threshold
BrightTrailRows(i) ==
  {j \in 0..(generators[i][2] - 1) :
     /\ origin[<<generators[i][1], j>>].since = trail[i].tick + j - 1
     /\ CellAt(grid, <<generators[i][1], j>>).lifetime >= RUNE_FADE_DURATION}

\* C11 as stated -- over the cells a falling generator left behind whose
\* lifetime is at or above the fade threshold, the brightness render paints
\* is strictly decreasing from the most recently written cell to the oldest.
C11_StrictlyDecreasingBrightness ==
  Rendered =>
    \A i \in 1..Len(generators) :
      \A a, b \in BrightTrailRows(i) :
        a < b =>
          Brightness(CellAt(screen, <<generators[i][1], b>>).fg)
            > Brightness(CellAt(screen, <<generators[i][1], a>>).fg)

\* C11 -- every cell a falling generator left behind whose lifetime is at or
\* above the fade threshold is painted in the stored base color unchanged:
\* all of them have the same brightness, whatever their age.
C11_TrailFullBrightness ==
  Rendered =>
    \A i \in 1..Len(generators) :
      \A j \in BrightTrailRows(i) :
        CellAt(screen, <<generators[i][1], j>>).fg = RUNE_COLOR_BASE

\* C11 witness: render has painted two cells of one generator's trail that
\* have different lifetimes, both at or above the fade threshold
C11_Witness ==
  /\ Rendered
  /\ \E i \in 1..Len(generators) :
       \E a, b \in BrightTrailRows(i) :
         /\ a < b
         /\ CellAt(grid, <<generators[i][1], a>>).lifetime
              # CellAt(grid, <<generators[i][1], b>>).lifetime

\* the last step found no generator in the list and none of its spawn
\* trials succeeded
QuietStep ==
  /\ Stepped
  /\ before.generators = << >>
  /\ \A i \in 1..Len(last.sd) : ~(last.sd[i] <= GENERATOR_IN_COLUMN[1])

\* C12 as stated -- a step that finds the list empty and spawns nothing
\* leaves the list empty and changes no cell's glyph and no cell's color;
\* it only decrements the positive lifetimes.
C12_OnlyLifetimesChange ==
  QuietStep =>
    /\ generators = << >>
    /\ \A c \in Cells :
         /\ CellAt(grid, c).character = CellAt(before.grid, c).character
         /\ CellAt(grid, c).color = CellAt(before.grid, c).color
         /\ CellAt(grid, c).lifetime = Max(CellAt(before.grid, c).lifetime - 1, 0)

\* C12 -- a step that finds the list empty and spawns nothing leaves the
\* list empty and changes no cell's color; it decrements the positive
\* lifetimes; a cell's glyph is unchanged or becomes the blank, and it
\* becomes the blank only in a cell whose lifetime is 0 when the step returns.
C12_QuietStepFrame ==
  QuietStep =>
    /\ generators = << >>
    /\ \A c \in Cells :
         /\ \/ CellAt(grid, c).character = CellAt(before.grid, c).character
            \/ /\ CellAt(grid, c).character = BLANK
               /\ CellAt(grid, c).lifetime = 0
         /\ CellAt(grid, c).color = CellAt(before.grid, c).color
         /\ CellAt(grid, c).lifetime = Max(CellAt(before.grid, c).lifetime - 1, 0)

\* C12 witness: such a step blanked the glyph of one cell and decremented
\* the positive lifetime of another, whose glyph it kept
C12_Witness ==
  /\ QuietStep
  /\ \E c, d \in Cells :
       /\ CellAt(before.grid, c).character # BLANK
       /\ CellAt(grid, c).character = BLANK
       /\ CellAt(before.grid, d).lifetime > 0
       /\ CellAt(grid, d).character # BLANK

\* C13 -- a cell that held the blank glyph with lifetime 0 before a step
\* that wrote no fresh rune to it holds the same rune after it: glyph blank,
\* lifetime 0, color unchanged.  Only a rune written by an advance or a
\* spawn changes such a cell.
C13_BlankStaysBlank ==
  Stepped =>
    \A c \in Cells \ last.written :
      ( /\ CellAt(before.grid, c).character = BLANK
        /\ CellAt(before.grid, c).lifetime = 0 )
      => CellAt(grid, c) = CellAt(before.grid, c)

\* C13 witness: of two cells that were blank with lifetime 0, the last step
\* left one as it was and wrote a fresh rune to the other
C13_Witness ==
  /\ Stepped
  /\ \E c \in Cells \ last.written : \E d \in last.written :
       /\ CellAt(before.grid, c).character = BLANK
       /\ CellAt(before.grid, c).lifetime = 0
       /\ CellAt(grid, c).character = BLANK
       /\ CellAt(grid, c).lifetime = 0
       /\ CellAt(before.grid, d).character = BLANK
       /\ CellAt(before.grid, d).lifetime = 0
       /\ CellAt(grid, d).character # BLANK

\* C14 -- for every stored channel c and lifetime v in 0..255 the channel
\* render paints is c when v >= RUNE_FADE_DURATION and 0 when v = 0; for
\* 0 < v < RUNE_FADE_DURATION it is not above what render paints for v + 1,
\* not below the linear value c * v / RUNE_FADE_DURATION, and above it by
\* less than RUNE_FADE_DURATION.
C14_ThreeBands ==
  Rendered =>
    \A c \in Cells : \A k \in 1..3 :
      LET ch == CellAt(grid, c).color[k]
          v  == CellAt(grid, c).lifetime
          fg == CellAt(screen, c).fg[k]
      IN  /\ v >= RUNE_FADE_DURATION => fg = ch
          /\ v = 0 => fg = 0
          /\ (0 < v /\ v < RUNE_FADE_DURATION) =>
               /\ fg <= RenderChannel(ch, v + 1)
               /\ RUNE_FADE_DURATION * fg >= ch * v
               /\ RUNE_FADE_DURATION * fg - ch * v
                    < RUNE_FADE_DURATION * RUNE_FADE_DURATION

\* C14 witness: render painted a fading cell above the linear value and
\* below the stored channel
C14_Witness ==
  /\ Rendered
  /\ \E c \in Cells : \E k \in 1..3 :
       /\ CellAt(grid, c).lifetime > 0
       /\ CellAt(grid, c).lifetime < RUNE_FADE_DURATION
       /\ RUNE_FADE_DURATION * CellAt(screen, c).fg[k]
            > CellAt(grid, c).color[k] * CellAt(grid, c).lifetime
       /\ CellAt(screen, c).fg[k] < CellAt(grid, c).color[k]

\* One call of step on a terminal of two columns and one row with every
\* value the spawn draw can take: the two trials of the first step.
AllSpawnDraws == 0..(GENERATOR_IN_COLUMN[2] - 1)

InitSpawnTrials == InitSize(2, 1, InitLifetimeDraws)

\* the one call of step: it may push a generator in each of the two columns
StepSpawnTrials == StepDraws(RuneDraws, AllSpawnDraws, 1, 2)

NextSpawnTrials == StepSpawnTrials \/ Render

SpecSpawnTrials == InitSpawnTrials /\ [][NextSpawnTrials]_vars

\* the columns, counted from 1, in which the last step pushed a generator
SpawnedColumns ==
  {i \in 1..Len(last.sd) : <<i - 1, 0>> \in Range(generators)}

\* C15 -- of the GENERATOR_IN_COLUMN[2] values a column's spawn draw can
\* take, GENERATOR_IN_COLUMN[1] cause a spawn: the draws that succeeded in
\* one step are at most that many distinct values.  Each success appends
\* one generator at row 0 of its column and writes a fresh rune there.
C15_SpawnOdds ==
  Stepped =>
    /\ Cardinality({last.sd[i] : i \in SpawnedColumns}) <= GENERATOR_IN_COLUMN[1]
    /\ \A i \in SpawnedColumns :
         /\ Cardinality({k \in 1..Len(generators) : generators[k] = <<i - 1, 0>>}) = 1
         /\ <<i - 1, 0>> \in last.written

\* the loop of main has ended: an Err or a panic left it
LoopEnded == pc \in {"failed", "panicked"}

\* C16 -- the loop calls step, render, step, render, ..., starting with step:
\* a render call is made after exactly one more step call than the render
\* call before it and paints the grid that step left.  A call that fails
\* ends the loop: no step or render call follows it.
C16_StepThenRender ==
  /\ pc = "step" =>
       /\ calls.renders = ticks
       /\ calls.outcome = (IF ticks = 0 THEN "none" ELSE "render ok")
       /\ ticks > 0 => screen = RenderGrid(grid)
  /\ pc = "render" =>
       /\ calls.renders = ticks - 1
       /\ calls.outcome = "step ok"
  /\ calls.outcome = "render err" => pc = "failed"
  /\ calls.outcome = "step panicked" => pc = "panicked"
  /\ LoopEnded =>
       /\ calls.renders \in {ticks - 1, ticks}
       /\ ~ENABLED Next

\* C16 witness: the third render call failed after three step calls and two
\* successful render calls, and the loop has ended
C16_Witness ==
  /\ pc = "failed"
  /\ calls.outcome = "render err"
  /\ ticks = 3
  /\ calls.renders = 3
  /\ screen = RenderGrid(before.grid)

\* C17 -- no two entries of the generator list hold the same position and
\* the list is never longer than width * height; the generators that were
\* in the list when the spawn loop of the last step ran are all below row 0.
C17_DistinctGenerators ==
  /\ \A i, j \in 1..Len(generators) :
       generators[i] = generators[j] => i = j
  /\ Len(generators) <= termSize[1] * termSize[2]
  /\ Stepped =>
       \A i \in 1..(Len(generators) - SpawnedInLastStep) : generators[i][2] >= 1

\* C17 witness: the last step spawned a generator at the top of a column
\* that holds an older generator one row below, and the list is as long as
\* the grid has cells
C17_Witness ==
  /\ Stepped
  /\ SpawnedInLastStep = 1
  /\ Len(generators) = termSize[1] * termSize[2]
  /\ \E i, j \in 1..Len(generators) :
       /\ i < j
       /\ generators[i][1] = generators[j][1]
       /\ generators[i][2] = 1
       /\ generators[j][2] = 0

\* the largest lifetime create_rune can give: lib.rs:48-49 with lib.rs:19, 21
MaxLifetime == (RUNE_LIFETIME[2] - 1) + RUNE_FADE_DURATION

\* C18 -- in every reachable state every cell's lifetime is at most
\* MaxLifetime, so the test RUNE_LIFETIME.1 + RUNE_FADE_DURATION > lifetime
\* of the aging loop is true for every cell step meets.
C18_LifetimeCeiling ==
  \A c \in Cells :
    /\ CellAt(grid, c).lifetime <= MaxLifetime
    /\ RUNE_LIFETIME[2] + RUNE_FADE_DURATION > CellAt(grid, c).lifetime
    /\ RUNE_LIFETIME[2] + RUNE_FADE_DURATION > CellAt(before.grid, c).lifetime

\* C18 witness: the last step wrote a rune of the largest lifetime and the
\* aging loop of the same step decremented it
C18_Witness ==
  /\ Stepped
  /\ \E c \in last.written :
       /\ origin[c].lifetime = MaxLifetime
       /\ CellAt(grid, c).lifetime = MaxLifetime - 1

\* The loop of main running without end on a terminal of one column and two
\* rows: every write to the terminal succeeds, step and render are called
\* in turn for QuietTicks rounds, and one spawn trial of the run succeeds.
QuietTicks == 45

InitQuiet == InitSize(1, 2, InitLifetimeDraws)

StepQuiet == StepDraws(RuneDraws, SpawnDraws, QuietTicks, 1)

\* main.rs:11 -- a render call that returns Ok
RenderOk == Render /\ pc' = "step"

NextQuiet == StepQuiet \/ RenderOk

\* main.rs:9-14 -- the loop has no exit but an Err, so each call is made
SpecQuiet ==
  /\ InitQuiet
  /\ [][NextQuiet]_vars
  /\ WF_vars(StepQuiet)
  /\ WF_vars(RenderOk)

\* the empty list over a grid of blank cells of lifetime 0 and base color
Quiescent ==
  /\ generators = << >>
  /\ \A c \in Cells : CellAt(grid, c) = Rune(BLANK, 0, RUNE_COLOR_BASE)

\* no later spawn trial succeeds, and the run has the steps left that the
\* youngest rune needs to fade
SpawnsOver ==
  /\ spawns = 1
  /\ ticks + termSize[2] + MaxLifetime <= QuietTicks

\* C19 -- a generator spawned by some step is at row (steps since) and is
\* removed by the step that is height steps after it, not before; once no
\* spawn trial succeeds any more the run reaches an empty generator list
\* over a grid of blank cells of lifetime 0 and base color, and a step
\* without a spawn leaves that state as it is.
C19_GeneratorsLeave ==
  /\ [](\A i \in 1..Len(generators) :
          /\ generators[i][2] = ticks - trail[i].tick
          /\ generators[i][2] < termSize[2])
  /\ [][(ticks' = ticks + 1 /\ pc' # "panicked") =>
          Range(trail) \cap Range(trail')
            = {r \in Range(trail) : (ticks + 1) - r.tick < termSize[2]}]_vars
  /\ SpawnsOver ~> Quiescent
  /\ [][(Quiescent /\ ticks' = ticks + 1 /\ spawns' = spawns) =>
          (grid' = grid /\ generators' = generators)]_vars

\* C19 witness: the one generator of the run has spawned, fallen and been
\* removed, its runes have faded, and the last step changed nothing
C19_Witness ==
  /\ Stepped
  /\ Quiescent
  /\ spawns = 1
  /\ before.grid = grid
  /\ before.generators = generators
  /\ \E c \in Cells : origin[c].since > 0

\* The loop of main on every terminal size of at most MaxCells \div 2 cells,
\* the sizes of no columns or no rows among them.
AnySizes ==
  {s \in (0..MaxCells) \X (0..MaxCells) : s[1] * s[2] <= MaxCells \div 2}

InitAnySize == \E s \in AnySizes : InitSize(s[1], s[2], InitLifetimeDraws)

SpecAnySize == InitAnySize /\ [][Next]_vars

\* C20 -- on every terminal size, one of width 0 or height 0 included, a
\* call of step runs to its end: no index of it is out of bounds.
C20_StepCompletes ==
  ticks > 0 => (pc # "panicked" /\ calls.outcome # "step panicked")

====
